---- MODULE Spec2Model ----
(***************************************************************************)
(* chrono::utility::to_duration (src/src/chrono/utility/to_duration.hpp).  *)
(*                                                                         *)
(* One call of the iterator-range overload is modelled as a state machine  *)
(* over the locals of the function (it, tmp, n, neg) and a program         *)
(* counter.  The character storage is a sequence buf followed by the       *)
(* terminator that std::basic_string keeps at index size(); first is       *)
(* position 1 and last is a position in 1..Len(buf)+1.  The string and     *)
(* character-pointer overloads pass cbegin()/cend(), i.e. last =           *)
(* Len(buf)+1 (SpecString); the range overload may be given any last       *)
(* inside the storage (Spec).  The function dereferences it without        *)
(* comparing it with last (in the switch and in the look-ahead of the      *)
(* cases 'n', 'u' and 'm'); what such a read                               *)
(* yields is whatever the storage holds at that position, and the storage  *)
(* contents are drawn from all the inputs: any character of the alphabet,  *)
(* or the terminator at the end of the storage.                            *)
(*                                                                         *)
(* Tick counts (duration_type::rep, a signed 64 bit integer) are kept in   *)
(* sign-magnitude form with NLimbs limbs of base Base, because one hour    *)
(* is 3.6 * 10^12 nanoseconds.  Within the bounds below no value reaches   *)
(* 2^63, so the signed overflow the C++ code would have does not arise.    *)
(***************************************************************************)
EXTENDS Integers, Sequences, FiniteSets, TLC

(***************************************************************************)
(* Bounds of the model.                                                    *)
(***************************************************************************)
MaxLen == 4

(***************************************************************************)
(* Characters.                                                             *)
(***************************************************************************)
NUL == "NUL"

Digits == {"0", "1", "2", "3", "4", "5", "6", "7", "8", "9"}

DigitVal(c) ==
  CASE c = "0" -> 0 [] c = "1" -> 1 [] c = "2" -> 2 [] c = "3" -> 3
    [] c = "4" -> 4 [] c = "5" -> 5 [] c = "6" -> 6 [] c = "7" -> 7
    [] c = "8" -> 8 [] c = "9" -> 9

\* the characters the enumerated inputs are written in: one digit, both
\* signs, the five unit letters and a letter that is no unit ("S": unit
\* letters are case sensitive)
Alphabet == {"1", "+", "-", "n", "u", "m", "s", "h", "S"}

(***************************************************************************)
(* The six std::chrono duration types, by rank (1 = finest), and the       *)
(* number of ticks of each in one tick of the next coarser one.            *)
(***************************************************************************)
Durations == {"ns", "us", "ms", "s", "m", "h"}

Rank(d) ==
  CASE d = "ns" -> 1 [] d = "us" -> 2 [] d = "ms" -> 3
    [] d = "s" -> 4 [] d = "m" -> 5 [] d = "h" -> 6

Factor == <<1000, 1000, 1000, 60, 60>>

(***************************************************************************)
(* duration_type::rep arithmetic.  A value is [neg, mag] with mag the      *)
(* little-endian limbs of its magnitude; zero is never negative.           *)
(***************************************************************************)
Base == 1000000

NLimbs == 4

Limbs == 1..NLimbs

ZeroMag == [i \in Limbs |-> 0]

Norm(neg, mag) == [neg |-> neg /\ mag # ZeroMag, mag |-> mag]

Zero == Norm(FALSE, ZeroMag)

RepOfInt(k) ==
  LET a == IF k < 0 THEN -k ELSE k
  IN  Norm(k < 0, [i \in Limbs |-> IF i = 1 THEN a % Base
                                   ELSE IF i = 2 THEN a \div Base ELSE 0])

RECURSIVE AddCarry(_, _, _)
AddCarry(a, b, i) ==
  IF i = 0 THEN 0 ELSE (a[i] + b[i] + AddCarry(a, b, i - 1)) \div Base

MagAdd(a, b) == [i \in Limbs |-> (a[i] + b[i] + AddCarry(a, b, i - 1)) % Base]

RECURSIVE SubBorrow(_, _, _)
SubBorrow(a, b, i) ==
  IF i = 0 THEN 0
  ELSE IF a[i] - b[i] - SubBorrow(a, b, i - 1) < 0 THEN 1 ELSE 0

\* a - b for a >= b
MagSub(a, b) ==
  [i \in Limbs |-> (a[i] - b[i] - SubBorrow(a, b, i - 1) + Base) % Base]

RECURSIVE MagLessFrom(_, _, _)
MagLessFrom(a, b, i) ==
  IF i = 0 THEN FALSE
  ELSE IF a[i] # b[i] THEN a[i] < b[i] ELSE MagLessFrom(a, b, i - 1)

MagLess(a, b) == MagLessFrom(a, b, NLimbs)

RECURSIVE MulCarry(_, _, _)
MulCarry(a, f, i) ==
  IF i = 0 THEN 0 ELSE (a[i] * f + MulCarry(a, f, i - 1)) \div Base

MagMul(a, f) == [i \in Limbs |-> (a[i] * f + MulCarry(a, f, i - 1)) % Base]

\* the remainder carried into limb i - 1 by the long division of a by f
RECURSIVE DivRem(_, _, _)
DivRem(a, f, i) ==
  IF i > NLimbs THEN 0 ELSE (DivRem(a, f, i + 1) * Base + a[i]) % f

MagDiv(a, f) == [i \in Limbs |-> (DivRem(a, f, i + 1) * Base + a[i]) \div f]

MagAddSmall(a, k) == MagAdd(a, [i \in Limbs |-> IF i = 1 THEN k ELSE 0])

\* x + y
RepAdd(x, y) ==
  IF x.neg = y.neg THEN Norm(x.neg, MagAdd(x.mag, y.mag))
  ELSE IF MagLess(x.mag, y.mag) THEN Norm(y.neg, MagSub(y.mag, x.mag))
  ELSE Norm(x.neg, MagSub(x.mag, y.mag))

\* x * f for a factor f > 0
RepMul(x, f) == Norm(x.neg, MagMul(x.mag, f))

\* x / f for a divisor f > 0: C++ integer division, truncating toward zero
RepDiv(x, f) == Norm(x.neg, MagDiv(x.mag, f))

\* x / f rounded toward minus infinity
RepFloorDiv(x, f) ==
  IF x.neg THEN Norm(TRUE, MagDiv(MagAddSmall(x.mag, f - 1), f))
  ELSE Norm(FALSE, MagDiv(x.mag, f))

(***************************************************************************)
(* std::chrono::duration_cast between two of the six duration types: the   *)
(* count is multiplied by the ratio of the periods when the target is      *)
(* finer and divided by it (truncating) when the target is coarser.  The   *)
(* ratio is applied one unit step at a time; for a truncating division     *)
(* this equals one division by the product.                                *)
(***************************************************************************)
RECURSIVE ScaleUp(_, _, _)
ScaleUp(x, lo, hi) ==
  IF lo >= hi THEN x ELSE ScaleUp(RepMul(x, Factor[hi - 1]), lo, hi - 1)

RECURSIVE ScaleDown(_, _, _)
ScaleDown(x, lo, hi) ==
  IF lo >= hi THEN x ELSE ScaleDown(RepDiv(x, Factor[lo]), lo + 1, hi)

RECURSIVE ScaleDownFloor(_, _, _)
ScaleDownFloor(x, lo, hi) ==
  IF lo >= hi THEN x ELSE ScaleDownFloor(RepFloorDiv(x, Factor[lo]), lo + 1, hi)

\* a cast that rounds toward minus infinity, as std::chrono::floor does
duration_cast_floor(x, from, to) ==
  IF Rank(to) <= Rank(from) THEN ScaleUp(x, Rank(to), Rank(from))
  ELSE ScaleDownFloor(x, Rank(from), Rank(to))

duration_cast(x, from, to) ==
  IF Rank(to) <= Rank(from) THEN ScaleUp(x, Rank(to), Rank(from))
  ELSE ScaleDown(x, Rank(from), Rank(to))

\* tmp = x in place of tmp += x
AccumulateAssign(acc, x) == x

\* tmp += x
Accumulate(acc, x) == RepAdd(acc, x)

(***************************************************************************)
(* The storage the iterators point into.                                   *)
(***************************************************************************)
\* *it: the character at position i; position Len(buf)+1 holds the
\* terminator of the string storage
Deref(buf, i) == IF i \in 1..Len(buf) THEN buf[i] ELSE NUL

(***************************************************************************)
(* The steps of to_duration(first, last), as functions of the locals       *)
(* s = [it, tmp, n, neg, pc].                                              *)
(***************************************************************************)
Terminal == {"returned", "thrown"}

Start == [it |-> 1, tmp |-> Zero, n |-> 0, neg |-> FALSE, pc |-> "while"]

\* a do-while loop: the body is entered before the test
WhileTestDoWhile(buf, last, D, s) == [s EXCEPT !.pc = "sign"]

\* while (it != last) ... return duration_type(tmp)
WhileTest(buf, last, D, s) ==
  IF s.it # last THEN [s EXCEPT !.pc = "sign"] ELSE [s EXCEPT !.pc = "returned"]

\* neg = *it == '-'; if *it is '+' or '-': ++it; rep n = 0;
ReadSign(buf, last, D, s) ==
  LET c == Deref(buf, s.it)
  IN  [s EXCEPT !.neg = (c = "-"),
                !.it = IF c = "+" \/ c = "-" THEN s.it + 1 ELSE s.it,
                !.n = 0,
                !.pc = "digits"]

\* n = n * 10 + digit
ReadDigitPositive(buf, last, D, s) ==
  IF s.it # last /\ Deref(buf, s.it) \in Digits
  THEN [s EXCEPT !.n = s.n * 10 + DigitVal(Deref(buf, s.it)), !.it = s.it + 1]
  ELSE [s EXCEPT !.pc = "negate"]

\* one turn of while (it != last) { if digit: n = n * 10 - digit;
\* else break; it++; }
ReadDigit(buf, last, D, s) ==
  IF s.it # last /\ Deref(buf, s.it) \in Digits
  THEN [s EXCEPT !.n = s.n * 10 - DigitVal(Deref(buf, s.it)), !.it = s.it + 1]
  ELSE [s EXCEPT !.pc = "negate"]

\* n = neg ? -n : n
ApplySignSwapped(buf, last, D, s) ==
  [s EXCEPT !.n = IF s.neg THEN -s.n ELSE s.n, !.pc = "switch"]

\* n = neg ? n : -n;
ApplySign(buf, last, D, s) ==
  [s EXCEPT !.n = IF s.neg THEN s.n ELSE -s.n, !.pc = "switch"]

\* tmp += duration_cast<duration_type>(unit(n))
Fold(s, unit, D) == Accumulate(s.tmp, duration_cast(RepOfInt(s.n), unit, D))

\* switch on *it: 's' and 'h' fold at once, 'n', 'u' and 'm' step to the
\* next character (the ++it of the look-ahead), anything else throws
SwitchUnit(buf, last, D, s) ==
  LET c == Deref(buf, s.it)
  IN  CASE c = "n" -> [s EXCEPT !.it = s.it + 1, !.pc = "case_n"]
        [] c = "u" -> [s EXCEPT !.it = s.it + 1, !.pc = "case_u"]
        [] c = "m" -> [s EXCEPT !.it = s.it + 1, !.pc = "case_m"]
        [] c = "s" -> [s EXCEPT !.tmp = Fold(s, "s", D), !.pc = "advance"]
        [] c = "h" -> [s EXCEPT !.tmp = Fold(s, "h", D), !.pc = "advance"]
        [] OTHER   -> [s EXCEPT !.pc = "thrown"]

\* case 'n' without the test of the second character
CaseNLenient(buf, last, D, s) ==
  [s EXCEPT !.tmp = Fold(s, "ns", D), !.pc = "advance"]

\* case 'n': if (the next character is 's') tmp += ns(n); else throw
CaseN(buf, last, D, s) ==
  IF Deref(buf, s.it) = "s"
  THEN [s EXCEPT !.tmp = Fold(s, "ns", D), !.pc = "advance"]
  ELSE [s EXCEPT !.pc = "thrown"]

\* case 'u': if (the next character is 's') tmp += us(n); else throw
CaseU(buf, last, D, s) ==
  IF Deref(buf, s.it) = "s"
  THEN [s EXCEPT !.tmp = Fold(s, "us", D), !.pc = "advance"]
  ELSE [s EXCEPT !.pc = "thrown"]

\* case 'm' without the it-- of the minute branch
CaseMNoBacktrack(buf, last, D, s) ==
  IF Deref(buf, s.it) = "s"
  THEN [s EXCEPT !.tmp = Fold(s, "ms", D), !.pc = "advance"]
  ELSE [s EXCEPT !.tmp = Fold(s, "m", D), !.pc = "advance"]

\* case 'm': if (the next character is 's') tmp += ms(n);
\* else { tmp += minutes(n); it--; }
CaseM(buf, last, D, s) ==
  IF Deref(buf, s.it) = "s"
  THEN [s EXCEPT !.tmp = Fold(s, "ms", D), !.pc = "advance"]
  ELSE [s EXCEPT !.tmp = Fold(s, "m", D), !.it = s.it - 1, !.pc = "advance"]

\* the loop's closing step without the increment
AdvanceStuck(buf, last, D, s) == [s EXCEPT !.pc = "while"]

\* it++; at the end of the outer loop's body
Advance(buf, last, D, s) == [s EXCEPT !.it = s.it + 1, !.pc = "while"]

Step(buf, last, D, s) ==
  CASE s.pc = "while"   -> WhileTest(buf, last, D, s)
    [] s.pc = "sign"    -> ReadSign(buf, last, D, s)
    [] s.pc = "digits"  -> ReadDigit(buf, last, D, s)
    [] s.pc = "negate"  -> ApplySign(buf, last, D, s)
    [] s.pc = "switch"  -> SwitchUnit(buf, last, D, s)
    [] s.pc = "case_n"  -> CaseN(buf, last, D, s)
    [] s.pc = "case_u"  -> CaseU(buf, last, D, s)
    [] s.pc = "case_m"  -> CaseM(buf, last, D, s)
    [] s.pc = "advance" -> Advance(buf, last, D, s)

RECURSIVE Run(_, _, _, _)
Run(buf, last, D, s) ==
  IF s.pc \in Terminal THEN s ELSE Run(buf, last, D, Step(buf, last, D, s))

\* to_duration<Duration>(str): the overloads that take a whole string
to_duration(str, D) == Run(str, Len(str) + 1, D, Start)

(***************************************************************************)
(* The inputs: every text of at most MaxLen characters of Alphabet, and    *)
(* every concatenation of at most two well-formed components.             *)
(***************************************************************************)
Texts(k) == UNION {[1..m -> Alphabet] : m \in 0..k}

SignTexts == {<<>>, <<"-">>}

DigitTexts == {<<"1">>, <<"9", "0">>}

UnitTexts == {<<"n", "s">>, <<"u", "s">>, <<"m", "s">>, <<"s">>, <<"m">>, <<"h">>}

Components == {sg \o dg \o ut : sg \in SignTexts, dg \in DigitTexts, ut \in UnitTexts}

\* the empty text, one component, or two components one after the other
Concatenations ==
  {a \o b : a \in Components \cup {<<>>}, b \in Components \cup {<<>>}}

Inputs == Texts(MaxLen) \cup Concatenations

(***************************************************************************)
(* State: the arguments of the call (buf, first = 1, last, the Duration    *)
(* template argument D), the locals it, tmp, n, neg, the program counter,  *)
(* and two history variables: the cursor at the start of the current       *)
(* turn of the outer loop, and the number of turns started.                *)
(***************************************************************************)
VARIABLES buf, last, D, it, tmp, n, neg, pc, iterStart, iters

vars == <<buf, last, D, it, tmp, n, neg, pc, iterStart, iters>>

first == 1

Cur == [it |-> it, tmp |-> tmp, n |-> n, neg |-> neg, pc |-> pc]

Becomes(s) ==
  /\ it' = s.it
  /\ tmp' = s.tmp
  /\ n' = s.n
  /\ neg' = s.neg
  /\ pc' = s.pc
  /\ UNCHANGED <<buf, last, D>>

Init ==
  /\ buf \in Inputs
  /\ last \in 1..(Len(buf) + 1)
  /\ D \in Durations
  /\ it = Start.it
  /\ tmp = Start.tmp
  /\ n = Start.n
  /\ neg = Start.neg
  /\ pc = Start.pc
  /\ iterStart = first
  /\ iters = 0

\* the overloads taking a string or a character pointer: cbegin(), cend()
InitString == Init /\ last = Len(buf) + 1

DoWhileTest ==
  /\ pc = "while"
  /\ Becomes(WhileTest(buf, last, D, Cur))
  /\ iterStart' = it
  /\ iters' = IF pc' = "sign" THEN iters + 1 ELSE iters

DoReadSign ==
  /\ pc = "sign"
  /\ Becomes(ReadSign(buf, last, D, Cur))
  /\ UNCHANGED <<iterStart, iters>>

DoReadDigit ==
  /\ pc = "digits"
  /\ Becomes(ReadDigit(buf, last, D, Cur))
  /\ UNCHANGED <<iterStart, iters>>

DoApplySign ==
  /\ pc = "negate"
  /\ Becomes(ApplySign(buf, last, D, Cur))
  /\ UNCHANGED <<iterStart, iters>>

DoSwitchUnit ==
  /\ pc = "switch"
  /\ Becomes(SwitchUnit(buf, last, D, Cur))
  /\ UNCHANGED <<iterStart, iters>>

DoCaseN ==
  /\ pc = "case_n"
  /\ Becomes(CaseN(buf, last, D, Cur))
  /\ UNCHANGED <<iterStart, iters>>

DoCaseU ==
  /\ pc = "case_u"
  /\ Becomes(CaseU(buf, last, D, Cur))
  /\ UNCHANGED <<iterStart, iters>>

DoCaseM ==
  /\ pc = "case_m"
  /\ Becomes(CaseM(buf, last, D, Cur))
  /\ UNCHANGED <<iterStart, iters>>

DoAdvance ==
  /\ pc = "advance"
  /\ Becomes(Advance(buf, last, D, Cur))
  /\ UNCHANGED <<iterStart, iters>>

Next ==
  \/ DoWhileTest
  \/ DoReadSign
  \/ DoReadDigit
  \/ DoApplySign
  \/ DoSwitchUnit
  \/ DoCaseN
  \/ DoCaseU
  \/ DoCaseM
  \/ DoAdvance

Spec == Init /\ [][Next]_vars

SpecString == InitString /\ [][Next]_vars

(***************************************************************************)
(* The grammar of the documentation, ([+-]?\d+(ns|us|ms|s|m|h))*, read     *)
(* independently of the scanner: a text is cut into components             *)
(* [sign] digits unit, each with its magnitude in standard positional      *)
(* notation.  The cut stops at the first place where no unit suffix        *)
(* stands (unit "none").                                                   *)
(***************************************************************************)
RefSignLen(t) == IF Len(t) > 0 /\ t[1] \in {"+", "-"} THEN 1 ELSE 0

RECURSIVE RefDigitRun(_, _)
RefDigitRun(t, i) ==
  IF i <= Len(t) /\ t[i] \in Digits THEN 1 + RefDigitRun(t, i + 1) ELSE 0

RefUnitAt(t, i) ==
  IF i > Len(t) THEN "none"
  ELSE IF i < Len(t) /\ t[i + 1] = "s" /\ t[i] \in {"n", "u", "m"}
       THEN (CASE t[i] = "n" -> "ns" [] t[i] = "u" -> "us" [] t[i] = "m" -> "ms")
  ELSE IF t[i] \in {"s", "m", "h"} THEN t[i]
  ELSE "none"

RefUnitLen(u) == IF u \in {"ns", "us", "ms"} THEN 2 ELSE IF u = "none" THEN 0 ELSE 1

RECURSIVE RefMagnitude(_)
RefMagnitude(ds) ==
  IF ds = <<>> THEN 0
  ELSE RefMagnitude(SubSeq(ds, 1, Len(ds) - 1)) * 10 + DigitVal(ds[Len(ds)])

\* the first component of a non-empty text
RefFirst(t) ==
  LET sl == RefSignLen(t)
      dl == RefDigitRun(t, sl + 1)
      u  == RefUnitAt(t, sl + dl + 1)
  IN  [neg     |-> sl = 1 /\ t[1] = "-",
       ndigits |-> dl,
       mag     |-> RefMagnitude(SubSeq(t, sl + 1, sl + dl)),
       unit    |-> u,
       upos    |-> sl + dl + 1,
       len     |-> sl + dl + RefUnitLen(u)]

RECURSIVE RefTokens(_)
RefTokens(t) ==
  IF t = <<>> THEN <<>>
  ELSE LET c == RefFirst(t)
       IN  IF c.unit = "none" THEN <<c>>
           ELSE <<c>> \o RefTokens(SubSeq(t, c.len + 1, Len(t)))

\* the text is a sequence of components, each with digits and a unit
WellFormed(t) ==
  \A i \in DOMAIN RefTokens(t) :
    RefTokens(t)[i].unit # "none" /\ RefTokens(t)[i].ndigits > 0

RECURSIVE RefTimes(_, _, _)
RefTimes(x, lo, hi) ==
  IF lo >= hi THEN x ELSE RefTimes(RepMul(x, Factor[lo]), lo + 1, hi)

RECURSIVE RefOver(_, _, _)
RefOver(m, lo, hi) ==
  IF lo >= hi THEN m ELSE RefOver(m \div Factor[lo], lo + 1, hi)

\* the signed count of component c of unit u in ticks of d, truncated
\* toward zero
RefTicks(c, u, d) ==
  IF Rank(d) <= Rank(u)
  THEN Norm(c.neg, RefTimes(RepOfInt(c.mag), Rank(d), Rank(u)).mag)
  ELSE Norm(c.neg, RepOfInt(RefOver(c.mag, Rank(u), Rank(d))).mag)

RECURSIVE RefSum(_, _)
RefSum(toks, d) ==
  IF toks = <<>> THEN Zero
  ELSE RepAdd(RefTicks(Head(toks), Head(toks).unit, d), RefSum(Tail(toks), d))

\* what a call delivers: the failure, or the value returned
Outcome(p, t) == IF p = "thrown" THEN <<"thrown">> ELSE <<"returned", t>>

OutcomeOf(r) == Outcome(r.pc, r.tmp)

\* a value followed by the outcome of the rest of the text
Then(v, r) == IF r.pc = "thrown" THEN <<"thrown">> ELSE <<"returned", RepAdd(v, r.tmp)>>

(***************************************************************************)
(* C1                                                                      *)
(***************************************************************************)
\* C1: a text of exactly one component [sign] N unit, parsed at a target
\* resolution equal to or finer than the unit, returns s * N * (ticks of
\* the target per unit), s = -1 iff the text starts with '-'.
C1_SingleComponentValue ==
  (pc \in Terminal /\ Len(RefTokens(buf)) = 1 /\ WellFormed(buf)
     /\ Rank(D) <= Rank(RefTokens(buf)[1].unit))
  => (pc = "returned"
      /\ tmp = Norm(RefTokens(buf)[1].neg,
                    RefTimes(RepOfInt(RefTokens(buf)[1].mag),
                             Rank(D), Rank(RefTokens(buf)[1].unit)).mag))

\* "-1h" at nanoseconds has returned -3 600 000 000 000
C1_Witness ==
  /\ pc = "returned"
  /\ buf = <<"-", "1", "h">>
  /\ D = "ns"
  /\ tmp = [neg |-> TRUE, mag |-> <<0, 600000, 3, 0>>]

(***************************************************************************)
(* C2                                                                      *)
(***************************************************************************)
\* C2: for a text of two components A and B the call returns
\* to_duration(A) + to_duration(B) at the same target resolution.
C2_ConcatenationAdditive ==
  (pc \in Terminal /\ Len(RefTokens(buf)) = 2 /\ WellFormed(buf))
  => LET k == RefTokens(buf)[1].len
         A == to_duration(SubSeq(buf, 1, k), D)
         B == to_duration(SubSeq(buf, k + 1, Len(buf)), D)
     IN  /\ pc = "returned"
         /\ A.pc = "returned"
         /\ B.pc = "returned"
         /\ tmp = RepAdd(A.tmp, B.tmp)

\* "90m-1h" at seconds has returned 5400 - 3600 = 1800
C2_Witness ==
  /\ pc = "returned"
  /\ buf = <<"9", "0", "m", "-", "1", "h">>
  /\ D = "s"
  /\ tmp = RepOfInt(1800)

(***************************************************************************)
(* C3                                                                      *)
(***************************************************************************)
\* C3: a call on a text in which a unit suffix stands where no digit has
\* been read for the component fails with the malformed-input error.
C3_NoDigitsFails ==
  (pc \in Terminal
     /\ \E i \in DOMAIN RefTokens(buf) :
          RefTokens(buf)[i].ndigits = 0 /\ RefTokens(buf)[i].unit # "none")
  => pc = "thrown"

(***************************************************************************)
(* C4                                                                      *)
(***************************************************************************)
\* C4 as stated: for a well-formed text the result at a coarse resolution
\* (here D) equals the result at any finer resolution R1 divided, with
\* truncating division, by the number of R1 ticks in one D tick.
C4_CoarseIsFineDivided ==
  (pc = "returned" /\ WellFormed(buf))
  => \A R1 \in Durations :
       Rank(R1) < Rank(D)
       => tmp = ScaleDown(to_duration(buf, R1).tmp, Rank(R1), Rank(D))

\* the sum over the components of t of (the component's own result at r1)
\* divided, truncating, by the number of r1 ticks in one r2 tick
RECURSIVE SumOfDividedParts(_, _, _)
SumOfDividedParts(t, r1, r2) ==
  IF t = <<>> THEN Zero
  ELSE LET k == RefFirst(t).len
       IN  RepAdd(ScaleDown(to_duration(SubSeq(t, 1, k), r1).tmp, Rank(r1), Rank(r2)),
                  SumOfDividedParts(SubSeq(t, k + 1, Len(t)), r1, r2))

\* C4 amended: for a well-formed text the result at a coarse resolution
\* (here D) equals the sum, over the components of the text, of the
\* component's own result at the finer resolution R1 divided by k with
\* truncating division (for a single component: result at R1 / k).
C4_CoarseIsSumOfDividedParts ==
  (pc = "returned" /\ WellFormed(buf))
  => \A R1 \in Durations :
       Rank(R1) < Rank(D) => tmp = SumOfDividedParts(buf, R1, D)

\* "90s90s" at minutes has returned 1 + 1 = 2, while 180 s / 60 is 3
C4_Witness ==
  /\ pc = "returned"
  /\ buf = <<"9", "0", "s", "9", "0", "s">>
  /\ D = "m"
  /\ tmp = RepOfInt(2)
  /\ to_duration(buf, "s").tmp = RepOfInt(180)

(***************************************************************************)
(* C5                                                                      *)
(***************************************************************************)
\* C5: after a digit run, 'm' followed by 's' is one millisecond component
\* and both characters are consumed; 'm' followed by anything else, or by
\* the end of the text, is a minute component and the character after the
\* 'm' starts the next component: the call delivers the component's value
\* followed by the outcome of the text after the consumed characters.
C5_MinuteMillisecond ==
  (pc \in Terminal /\ buf # <<>> /\ RefFirst(buf).ndigits > 0
     /\ Deref(buf, RefFirst(buf).upos) = "m")
  => LET c == RefFirst(buf)
         p == c.upos
     IN  IF Deref(buf, p + 1) = "s"
         THEN Outcome(pc, tmp)
                = Then(RefTicks(c, "ms", D), to_duration(SubSeq(buf, p + 2, Len(buf)), D))
         ELSE Outcome(pc, tmp)
                = Then(RefTicks(c, "m", D), to_duration(SubSeq(buf, p + 1, Len(buf)), D))

\* "1m1s" at seconds has returned 61: the '1' after the 'm' was not consumed
C5_Witness ==
  /\ pc = "returned"
  /\ buf = <<"1", "m", "1", "s">>
  /\ D = "s"
  /\ tmp = RepOfInt(61)

(***************************************************************************)
(* C6                                                                      *)
(***************************************************************************)
\* C6: a call on a text in which the character in unit position is none of
\* n, u, m, s, h (or the text ends there), or in which 'n' or 'u' is not
\* followed by 's', fails with the malformed-input error.
C6_BadUnitFails ==
  (pc \in Terminal /\ buf # <<>>
     /\ RefTokens(buf)[Len(RefTokens(buf))].unit = "none")
  => pc = "thrown"

\* "1nS" has failed: 'n' is not followed by 's'
C6_Witness ==
  /\ pc = "thrown"
  /\ buf = <<"1", "n", "S">>
  /\ it = 3

(***************************************************************************)
(* C7                                                                      *)
(***************************************************************************)
\* C7: on the empty text the call does not enter the loop, does not fail
\* and returns zero, at every target resolution.
C7_EmptyIsZero ==
  buf = <<>> => (pc \in {"while", "returned"} /\ tmp = Zero /\ iters = 0)

C7_Witness == pc = "returned" /\ buf = <<>> /\ D = "h" /\ tmp = Zero

(***************************************************************************)
(* C8                                                                      *)
(***************************************************************************)
\* C8: whenever the scanner stands at the head of the outer loop and the
\* text consumed so far is a sequence of k well-formed components, k turns
\* of the loop have run and the accumulator is the sum of the k components,
\* each converted on its own to the target resolution with truncation
\* toward zero (0 before the first component).
C8_AccumulatorInvariant ==
  (pc = "while" /\ WellFormed(SubSeq(buf, 1, it - 1)))
  => (/\ iters = Len(RefTokens(SubSeq(buf, 1, it - 1)))
      /\ tmp = RefSum(RefTokens(SubSeq(buf, 1, it - 1)), D))

\* after "-90s" at minutes the accumulator is -1 (truncated, not floored);
\* the following "90ms" will add 0
C8_Witness ==
  /\ pc = "while"
  /\ buf = <<"-", "9", "0", "s", "9", "0", "m", "s">>
  /\ it = 5
  /\ D = "m"
  /\ tmp = RepOfInt(-1)

(***************************************************************************)
(* C9                                                                      *)
(***************************************************************************)
\* a bound on the number of steps left, for calls on whole strings
PcWeight(p) ==
  CASE p = "while" -> 7 [] p = "sign" -> 6 [] p = "digits" -> 5
    [] p = "negate" -> 4 [] p = "switch" -> 3 [] p = "advance" -> 1
    [] p \in {"case_n", "case_u", "case_m"} -> 10
    [] OTHER -> 0

Variant(i, p) == 8 * (last - i) + PcWeight(p)

\* C9: every turn of the outer loop that does not fail leaves the cursor
\* right of where the turn started; the cursor moves backward only by the
\* one step of the minute case, which the closing it++ follows at once; at
\* most n = last - first turns are started; and every step lowers a
\* non-negative bound on the steps left, so the call returns or fails.
C9_CursorProgress ==
  [][/\ (pc = "advance" => (it' = it + 1 /\ it' > iterStart /\ pc' = "while"))
     /\ (it' < it => (pc = "case_m" /\ it' = it - 1 /\ pc' = "advance"))
     /\ it' <= last
     /\ iters' <= last - first
     /\ Variant(it', pc') >= 0
     /\ Variant(it', pc') < Variant(it, pc)]_vars

\* the second turn of the loop took the minute case and stepped back onto
\* the 'm'
C9_Witness ==
  /\ pc = "advance"
  /\ iters = 2
  /\ Deref(buf, it) = "m"
  /\ Deref(buf, it + 1) # "s"
  /\ it < Len(buf)

(***************************************************************************)
(* C10                                                                     *)
(***************************************************************************)
\* C10: in a call to_duration(first, last) the cursor never passes last and
\* the outcome is the outcome of a call on a string holding exactly the
\* characters of [first, last), whatever the storage holds at last.
C10_RangeSafe ==
  /\ it <= last
  /\ (pc \in Terminal
        => Outcome(pc, tmp) = OutcomeOf(to_duration(SubSeq(buf, first, last - 1), D)))
====
